---------------------------- MODULE Spec2Model ----------------------------
(***************************************************************************)
(* micro-http-async: the accept loop (server.rs), the route table and the  *)
(* dispatcher with its static-file branch (routes.rs) and the request      *)
(* parser (request.rs).                                                    *)
(*                                                                         *)
(* Strings and byte vectors are sequences of byte values (0..255); every   *)
(* literal of the source is written out as its bytes, so that splitting,   *)
(* substring search, chunk framing and UTF-8 validation are computed on    *)
(* the same data the program computes them on.                             *)
(***************************************************************************)
EXTENDS Integers, Sequences, FiniteSets, TLC

(***************************************************************************)
(* Literals of the source, as bytes.                                       *)
(***************************************************************************)
\* "\r\n"
CRLF == <<13, 10>>
\* " "
SP == <<32>>
\* "static"
STATIC == <<115, 116, 97, 116, 105, 99>>
\* "err"
ERR == <<101, 114, 114>>
\* "User-Agent:"
UA_MARK == <<85, 115, 101, 114, 45, 65, 103, 101, 110, 116, 58>>
\* "User-Agent: "
UA_SEP == <<85, 115, 101, 114, 45, 65, 103, 101, 110, 116, 58, 32>>
\* "none"
NONE == <<110, 111, 110, 101>>
\* "GET", "POST", "HEAD", "PUT", "DELETE", "CONNECT", "OPTIONS", "TRACE"
GET == <<71, 69, 84>>
POST == <<80, 79, 83, 84>>
HEAD == <<72, 69, 65, 68>>
PUT == <<80, 85, 84>>
DELETE == <<68, 69, 76, 69, 84, 69>>
CONNECT == <<67, 79, 78, 78, 69, 67, 84>>
OPTIONS == <<79, 80, 84, 73, 79, 78, 83>>
TRACE == <<84, 82, 65, 67, 69>>
\* "ERROR - CONTENT NOT AVAILABLE"
NOT_AVAILABLE ==
    <<69, 82, 82, 79, 82, 32, 45, 32, 67, 79, 78, 84, 69, 78, 84, 32, 78,
      79, 84, 32, 65, 86, 65, 73, 76, 65, 66, 76, 69>>
\* "HTTP/1.1 {} {}\r\nContent-type: image/jpeg;\r\nTransfer-Encoding: chunked\r\n\r\n"
JPEG_TEMPLATE ==
    <<72, 84, 84, 80, 47, 49, 46, 49, 32, 123, 125, 32, 123, 125, 13, 10,
      67, 111, 110, 116, 101, 110, 116, 45, 116, 121, 112, 101, 58, 32,
      105, 109, 97, 103, 101, 47, 106, 112, 101, 103, 59, 13, 10,
      84, 114, 97, 110, 115, 102, 101, 114, 45, 69, 110, 99, 111, 100, 105,
      110, 103, 58, 32, 99, 104, 117, 110, 107, 101, 100, 13, 10, 13, 10>>
\* "HTTP/1.1 {} {}\r\nContent-type: text/css;\r\nTransfer-Encoding: chunked\r\n\r\n"
CSS_TEMPLATE ==
    <<72, 84, 84, 80, 47, 49, 46, 49, 32, 123, 125, 32, 123, 125, 13, 10,
      67, 111, 110, 116, 101, 110, 116, 45, 116, 121, 112, 101, 58, 32,
      116, 101, 120, 116, 47, 99, 115, 115, 59, 13, 10,
      84, 114, 97, 110, 115, 102, 101, 114, 45, 69, 110, 99, 111, 100, 105,
      110, 103, 58, 32, 99, 104, 117, 110, 107, 101, 100, 13, 10, 13, 10>>
\* the chunk size handed to Encoder::with_chunks_size
ChunkSize == 8

(***************************************************************************)
(* str::contains and str::split on byte sequences.                         *)
(***************************************************************************)
Min(S) == CHOOSE x \in S : \A y \in S : x <= y

\* pat occurs in s at index i
StartsAt(s, pat, i) ==
    /\ i >= 1
    /\ i + Len(pat) - 1 <= Len(s)
    /\ \A j \in 1..Len(pat) : s[i + j - 1] = pat[j]

\* index of the first occurrence of pat in s, 0 when there is none
Find(s, pat) ==
    LET hits == {i \in 1..Len(s) : StartsAt(s, pat, i)}
    IN  IF hits = {} THEN 0 ELSE Min(hits)

\* str::contains
Contains(s, pat) == Find(s, pat) # 0

\* str::split(pat): the pieces between successive non-overlapping matches,
\* empty pieces included; a string without a match is its own single piece
RECURSIVE Split(_, _)
Split(s, pat) ==
    LET i == Find(s, pat)
    IN  IF i = 0 THEN <<s>>
        ELSE <<SubSeq(s, 1, i - 1)>>
             \o Split(SubSeq(s, i + Len(pat), Len(s)), pat)

(***************************************************************************)
(* request.rs: Request                                                     *)
(***************************************************************************)
split_to_row(string) == Split(string, CRLF)

\* the match of get_method on one token; "None" for the `_ => continue` arm
MethodOf(substring) ==
    CASE substring = GET -> "Get"
      [] substring = POST -> "Post"
      [] substring = HEAD -> "Head"
      [] substring = PUT -> "Put"
      [] substring = DELETE -> "Delete"
      [] substring = CONNECT -> "Connect"
      [] substring = OPTIONS -> "Options"
      [] substring = TRACE -> "Trace"
      [] OTHER -> "None"

\* the inner loop of get_method over the tokens of one row, from token i
RECURSIVE RowMethod(_, _)
RowMethod(tokens, i) ==
    IF i > Len(tokens) THEN "None"
    ELSE IF MethodOf(tokens[i]) # "None" THEN MethodOf(tokens[i])
    ELSE RowMethod(tokens, i + 1)

\* a get_method that looks at the row i only
MethodFrom_one_row(strings, i) ==
    IF i > Len(strings) THEN "None" ELSE RowMethod(Split(strings[i], SP), 1)

\* the outer loop of get_method over the rows, from row i
RECURSIVE MethodFrom(_, _)
MethodFrom(strings, i) ==
    IF i > Len(strings) THEN "None"
    ELSE LET m == RowMethod(Split(strings[i], SP), 1)
         IN  IF m # "None" THEN m ELSE MethodFrom(strings, i + 1)

get_method(strings) == MethodFrom(strings, 1)

\* a get_uri that takes "" for a missing second token
get_uri_or_empty(strings) ==
    LET tokens == Split(strings[1], SP)
    IN  IF Len(tokens) < 2 THEN [fault |-> FALSE, val |-> <<>>]
        ELSE [fault |-> FALSE, val |-> tokens[2]]

\* a get_uri that skips the empty pieces between adjacent spaces
get_uri_skip_empty(strings) ==
    LET NonEmpty(t) == t # <<>>
        tokens == SelectSeq(Split(strings[1], SP), NonEmpty)
    IN  IF Len(tokens) < 2 THEN [fault |-> TRUE, val |-> <<>>]
        ELSE [fault |-> FALSE, val |-> tokens[2]]

\* get_uri: strings[0].split(" ")[1]; the index faults when there is no
\* second token
get_uri(strings) ==
    LET tokens == Split(strings[1], SP)
    IN  IF Len(tokens) < 2 THEN [fault |-> TRUE, val |-> <<>>]
        ELSE [fault |-> FALSE, val |-> tokens[2]]

\* the loop of get_user_agent from row i with the current value of agent
RECURSIVE AgentFrom(_, _, _)
AgentFrom(strings, i, agent) ==
    IF i > Len(strings) THEN [fault |-> FALSE, val |-> agent]
    ELSE IF Contains(strings[i], UA_MARK)
         THEN LET agent_raw == Split(strings[i], UA_SEP)
              IN  IF Len(agent_raw) < 2 THEN [fault |-> TRUE, val |-> <<>>]
                  ELSE IF agent_raw[2] # NONE
                       THEN [fault |-> FALSE, val |-> agent_raw[2]]
                       ELSE AgentFrom(strings, i + 1, agent_raw[2])
         ELSE IF agent # NONE THEN [fault |-> FALSE, val |-> agent]
              ELSE AgentFrom(strings, i + 1, agent)

get_user_agent(strings) == AgentFrom(strings, 1, NONE)

\* the value of a Request that was not built
NoRequest ==
    [method |-> "None", uri |-> <<>>, user_agent |-> <<>>, raw_request |-> <<>>]

\* Request::new: the rows, then method, uri and user_agent in that order;
\* fault is the panic of an out-of-bounds index in get_uri or get_user_agent
Request_new(request) ==
    LET strings == split_to_row(request)
        uri == get_uri(strings)
        user_agent == get_user_agent(strings)
    IN  IF uri.fault \/ user_agent.fault
        THEN [fault |-> TRUE, val |-> NoRequest]
        ELSE [fault |-> FALSE,
              val |-> [method |-> get_method(strings),
                       uri |-> uri.val,
                       user_agent |-> user_agent.val,
                       raw_request |-> strings]]

(***************************************************************************)
(* routes.rs: DataType, the route table, the static-file branch            *)
(***************************************************************************)
Text(v) == [tag |-> "Text", val |-> v]
Bytes(v) == [tag |-> "Bytes", val |-> v]
\* no DataType yet
NoData == [tag |-> "None", val |-> <<>>]

\* one lower-case hexadecimal digit, as `{:x}` prints it
HexDigit(d) == IF d < 10 THEN 48 + d ELSE 87 + d

\* `{:x}` of a chunk length
RECURSIVE Hex(_)
Hex(n) == IF n < 16 THEN <<HexDigit(n)>> ELSE Hex(n \div 16) \o <<HexDigit(n % 16)>>

\* one chunk on the wire: the length in hexadecimal, CRLF, the data, CRLF
Chunk(data) == Hex(Len(data)) \o CRLF \o data \o CRLF

\* "0\r\n\r\n", which the Encoder writes when it is dropped
LAST_CHUNK == <<48>> \o CRLF \o CRLF

\* an encoder whose last, partly filled buffer is never sent
RECURSIVE Chunks_drop_rest(_)
Chunks_drop_rest(data) ==
    IF Len(data) < ChunkSize THEN <<>>
    ELSE Chunk(SubSeq(data, 1, ChunkSize))
         \o Chunks_drop_rest(SubSeq(data, ChunkSize + 1, Len(data)))

\* Encoder::write_all: the buffer is sent whenever it holds ChunkSize bytes;
\* the drop sends what is left of it, when that is not empty
RECURSIVE Chunks(_)
Chunks(data) ==
    IF Len(data) = 0 THEN <<>>
    ELSE IF Len(data) <= ChunkSize THEN Chunk(data)
    ELSE Chunk(SubSeq(data, 1, ChunkSize))
         \o Chunks(SubSeq(data, ChunkSize + 1, Len(data)))

\* the block of get_route that owns the Encoder: write_all, then the drop
chunked_encode(contents) == Chunks(contents) \o LAST_CHUNK

\* b[i] is a UTF-8 continuation byte
IsCont(b, i) == i <= Len(b) /\ b[i] >= 128 /\ b[i] <= 191

\* the length of the sequence a leading byte announces; 0 for a byte that
\* leads nothing (a continuation byte, 0xC0, 0xC1, 0xF5 and above)
SeqLen(c) ==
    IF c < 128 THEN 1
    ELSE IF c >= 194 /\ c <= 223 THEN 2
    ELSE IF c >= 224 /\ c <= 239 THEN 3
    ELSE IF c >= 240 /\ c <= 244 THEN 4
    ELSE 0

\* the second byte c2 is allowed after the leading byte c (no overlong
\* form, no surrogate, nothing above U+10FFFF)
SecondOk(c, c2) ==
    IF c = 224 THEN c2 >= 160 /\ c2 <= 191
    ELSE IF c = 237 THEN c2 >= 128 /\ c2 <= 159
    ELSE IF c = 240 THEN c2 >= 144 /\ c2 <= 191
    ELSE IF c = 244 THEN c2 >= 128 /\ c2 <= 143
    ELSE c2 >= 128 /\ c2 <= 191

\* a well-formed sequence starts at index i
SeqAt(b, i) ==
    LET n == SeqLen(b[i]) IN
    /\ n > 0
    /\ i + n - 1 <= Len(b)
    /\ n > 1 => SecondOk(b[i], b[i + 1])
    /\ \A j \in (i + 2)..(i + n - 1) : IsCont(b, j)

\* the validation of String::from_utf8: every byte that is not a
\* continuation byte starts a well-formed sequence, and every continuation
\* byte belongs to the sequence of the nearest such byte before it
Utf8(b) ==
    \A i \in 1..Len(b) :
        IF IsCont(b, i)
        THEN \E s \in 1..(i - 1) :
                /\ ~IsCont(b, s)
                /\ \A j \in (s + 1)..i : IsCont(b, j)
                /\ i - s + 1 <= SeqLen(b[s])
        ELSE SeqAt(b, i)

\* String::from_utf8(b) is Ok
from_utf8_ok(b) == Utf8(b)

\* the Ok(file_handle) arm deciding the tag by the bytes of the file rather
\* than by the templated, chunked vector
static_response_by_contents(contents) ==
    LET encoded == chunked_encode(contents)
        result == JPEG_TEMPLATE \o encoded
    IN  IF from_utf8_ok(contents) THEN Text(CSS_TEMPLATE \o encoded)
        ELSE Bytes(result)

\* the Ok(file_handle) arm of get_route: the image/jpeg template and the
\* chunked contents; when that whole byte vector is valid UTF-8 the same
\* chunks under the text/css template as Text, else the vector as Bytes
static_response(contents) ==
    LET encoded == chunked_encode(contents)
        result == JPEG_TEMPLATE \o encoded
    IN  IF from_utf8_ok(result) THEN Text(CSS_TEMPLATE \o encoded)
        ELSE Bytes(result)

\* an insert that keeps the entry a key already has
insert_or_keep(table, k, h) ==
    IF \E e \in table : e.key = k THEN table
    ELSE table \cup {[key |-> k, handler |-> h]}

\* HashMap::insert on the table, held as a set of (key, handler) entries:
\* the entry of that key, if any, is replaced
insert(table, k, h) ==
    {e \in table : e.key # k} \cup {[key |-> k, handler |-> h]}

\* HashMap::get is Some
contains_key(table, k) == \E e \in table : e.key = k

\* a get that does not compare the key
get_any(table, k) == (CHOOSE e \in table : TRUE).handler

\* the value of HashMap::get when it is Some
get(table, k) == (CHOOSE e \in table : e.key = k).handler

(***************************************************************************)
(* Inputs: the requests clients send, the routes the application           *)
(* registers, what its handlers return, and the files under ./static.      *)
(***************************************************************************)
\* most connections the clients open
MaxConns == 2
\* most space-separated words on the first line of a request
MaxTokens == 2
\* longest run of plain bytes before and after the inserted bytes of a file
MaxPre == 8
MaxSuf == 8

\* "/a", "/A", "/static/a"
URI_A == <<47, 97>>
URI_UPPER_A == <<47, 65>>
URI_STATIC_A == <<47, 115, 116, 97, 116, 105, 99, 47, 97>>
\* "X-A: b", a header line
HEADER_LINE == <<88, 45, 65, 58, 32, 98>>
\* "hi", "boom"
BODY_HI == <<104, 105>>
MSG_BOOM == <<98, 111, 111, 109>>

\* the words a request's first line is made of
Words == {GET, URI_A, URI_UPPER_A, URI_STATIC_A, ERR}

\* the words joined by single spaces
RECURSIVE JoinSP(_)
JoinSP(ws) ==
    IF Len(ws) = 0 THEN <<>>
    ELSE IF Len(ws) = 1 THEN ws[1]
    ELSE ws[1] \o SP \o JoinSP(Tail(ws))

\* all sequences over S of length n
RECURSIVE SeqsOfLen(_, _)
SeqsOfLen(S, n) ==
    IF n = 0 THEN {<<>>}
    ELSE {<<x>> \o t : x \in S, t \in SeqsOfLen(S, n - 1)}

\* what may follow the first line
Tails == {<<>>, CRLF \o HEADER_LINE}

\* the raw requests read from the sockets
RawRequests ==
    {JoinSP(ws) \o t : ws \in UNION {SeqsOfLen(Words, n) : n \in 0..MaxTokens},
                       t \in Tails}

\* the keys the application registers, and its handler functions
RouteKeys == {URI_A, ERR, URI_STATIC_A}
Handlers == {"h1", "h2"}
NoHandler == "none"
\* no add_route yet
NoAdd == [key |-> <<>>, old |-> NoHandler]

\* what a handler's future resolves to: Ok(body) or Err(message)
HandlerResults ==
    {[tag |-> "Ok", val |-> BODY_HI], [tag |-> "Ok", val |-> <<>>],
     [tag |-> "Err", val |-> MSG_BOOM], [tag |-> "Err", val |-> BODY_HI]}
NoResult == [tag |-> "None", val |-> <<>>]

\* n plain ASCII bytes, starting from the byte `first`
Plain(first, n) == [i \in 1..n |-> first + ((i - 1) % 26)]

\* bytes put in the middle of a file: nothing, U+00E9 and U+20AC in UTF-8, a
\* byte that is never valid in UTF-8, and "\r\n0"
Inserts == {<<>>, <<195, 169>>, <<226, 130, 172>>, <<255>>, <<13, 10, 48>>}

\* the contents of the files under ./static
Files ==
    {Plain(97, n) \o ins \o Plain(65, m) :
        n \in 0..MaxPre, ins \in Inserts, m \in 0..MaxSuf}

\* the files the running server meets: empty, shorter than a chunk, longer
\* than a chunk, not valid UTF-8
SmallFiles == {<<>>, Plain(97, 3), Plain(97, 9), <<255>>}

\* what File::open and read_to_end find
NoFile == [state |-> "none", contents |-> <<>>]
FileOutcomes ==
    {[state |-> "missing", contents |-> <<>>],
     [state |-> "unreadable", contents |-> <<>>]}
    \cup {[state |-> "ok", contents |-> f] : f \in SmallFiles}

NoWrite == [op |-> "none", data |-> <<>>]

(***************************************************************************)
(* State                                                                   *)
(***************************************************************************)
VARIABLES
    pc,           \* where main and HttpServer::listen stand
    routes,       \* Routes.routes, a set of (key, handler) entries
    latest,       \* history: the handler of the latest add_route per key
    last_add,     \* history: the key of the latest add_route and the
                  \* handler that key had before it, until listen()
    backlog,      \* connections made by clients and not yet accepted
    nextConn,     \* the number of the next connection a client makes
    cur,          \* the connection handle_connection is serving, 0 if none
    conn,         \* the lifecycle state of every connection
    request_str,  \* handle_connection: what read_to_string returned
    request,      \* get_route: the Request built from request_str
    calls,        \* history: the handlers invoked for connection cur
    file,         \* get_route: what File::open and read_to_end found
    hres,         \* get_route: what the handler's future resolved to
    ret_str,      \* handle_connection: the DataType get_route returned
    wire,         \* what was written to the socket of connection cur
    panicked      \* why the process panicked, "no" while it has not

vars == <<pc, routes, latest, last_add, backlog, nextConn, cur, conn, request_str,
          request, calls, file, hres, ret_str, wire, panicked>>

Conns == 1..MaxConns

\* the locals of handle_connection and get_route
locals == <<request_str, request, calls, file, hres, ret_str, wire>>

Init ==
    /\ pc = "setup"
    /\ routes = {}
    /\ latest = [k \in RouteKeys |-> NoHandler]
    /\ last_add = NoAdd
    /\ backlog = <<>>
    /\ nextConn = 1
    /\ cur = 0
    /\ conn = [c \in Conns |-> "Unconnected"]
    /\ request_str = <<>>
    /\ request = NoRequest
    /\ calls = <<>>
    /\ file = NoFile
    /\ hres = NoResult
    /\ ret_str = NoData
    /\ wire = NoWrite
    /\ panicked = "no"

\* an unwrap() or an index panics inside listen(): the process ends, and
\* the connection being served is dropped with it
Panic(why) ==
    /\ pc' = "panic"
    /\ panicked' = why
    /\ conn' = IF cur = 0 THEN conn ELSE [conn EXCEPT ![cur] = "Aborted"]

\* an add_route that is also available while listen() runs
add_route_while_listening(route, content) ==
    /\ pc \in {"setup", "accept"}
    /\ routes' = insert(routes, route, content)
    /\ latest' = [latest EXCEPT ![route] = content]
    /\ last_add' = [key |-> route, old |-> latest[route]]
    /\ UNCHANGED <<pc, backlog, nextConn, cur, conn, locals, panicked>>

(***************************************************************************)
(* main: routes are registered, then listen() is called                    *)
(***************************************************************************)
add_route(route, content) ==
    /\ pc = "setup"
    /\ routes' = insert(routes, route, content)
    /\ latest' = [latest EXCEPT ![route] = content]
    /\ last_add' = [key |-> route, old |-> latest[route]]
    /\ UNCHANGED <<pc, backlog, nextConn, cur, conn, locals, panicked>>

listen ==
    /\ pc = "setup"
    /\ pc' = "accept"
    /\ last_add' = NoAdd
    /\ UNCHANGED <<routes, latest, backlog, nextConn, cur, conn, locals,
                   panicked>>

\* a client connects to the bound listener; the kernel queues it
ClientConnect ==
    /\ pc # "panic"
    /\ nextConn <= MaxConns
    /\ backlog' = Append(backlog, nextConn)
    /\ conn' = [conn EXCEPT ![nextConn] = "Queued"]
    /\ nextConn' = nextConn + 1
    /\ UNCHANGED <<pc, routes, latest, last_add, cur, locals, panicked>>

(***************************************************************************)
(* HttpServer::listen and handle_connection                                *)
(***************************************************************************)
\* a listen() that hands each socket to a task of its own instead of
\* awaiting handle_connection: it accepts while a handler is still running
accept_while_serving ==
    /\ pc \in {"accept", "handler"}
    /\ backlog # <<>>
    /\ cur' = Head(backlog)
    /\ backlog' = Tail(backlog)
    /\ conn' = [conn EXCEPT ![Head(backlog)] = "Idle"]
    /\ pc' = "handle_connection"
    /\ request_str' = <<>>
    /\ request' = NoRequest
    /\ calls' = <<>>
    /\ file' = NoFile
    /\ hres' = NoResult
    /\ ret_str' = NoData
    /\ wire' = NoWrite
    /\ UNCHANGED <<routes, latest, last_add, nextConn, panicked>>

\* listener.accept().await is Ok: handle_connection is called with the
\* socket, its locals not yet set
accept ==
    /\ pc = "accept"
    /\ backlog # <<>>
    /\ cur' = Head(backlog)
    /\ backlog' = Tail(backlog)
    /\ conn' = [conn EXCEPT ![Head(backlog)] = "Idle"]
    /\ pc' = "handle_connection"
    /\ request_str' = <<>>
    /\ request' = NoRequest
    /\ calls' = <<>>
    /\ file' = NoFile
    /\ hres' = NoResult
    /\ ret_str' = NoData
    /\ wire' = NoWrite
    /\ UNCHANGED <<routes, latest, last_add, nextConn, panicked>>

\* listener.accept().await is Err: unwrap() panics
accept_fails ==
    /\ pc = "accept"
    /\ cur' = 0
    /\ pc' = "panic"
    /\ panicked' = "accept"
    /\ UNCHANGED <<routes, latest, last_add, backlog, nextConn, conn, locals>>

\* Connection::new(stream), and read_to_string() begins
Connection_new ==
    /\ pc = "handle_connection"
    /\ pc' = "read_to_string"
    /\ conn' = [conn EXCEPT ![cur] = "Reading"]
    /\ UNCHANGED <<routes, latest, last_add, backlog, nextConn, cur, locals, panicked>>

\* read_to_string().await returns the client's request
read_to_string(raw) ==
    /\ pc = "read_to_string"
    /\ request_str' = raw
    /\ pc' = "get_route"
    /\ conn' = [conn EXCEPT ![cur] = "Dispatching"]
    /\ UNCHANGED <<routes, latest, last_add, backlog, nextConn, cur, request, calls,
                   file, hres, ret_str, wire, panicked>>

\* a test for a URI that starts with "static" instead of containing it
is_static_starts_with(uri) == StartsAt(uri, STATIC, 1)

\* request.uri.contains("static")
is_static(uri) == Contains(uri, STATIC)

\* a lookup without the fallback: a miss is an error
Lookup_no_fallback(table, uri) ==
    IF contains_key(table, uri)
    THEN [ok |-> TRUE, key |-> uri, handler |-> get(table, uri),
          fallback |-> FALSE]
    ELSE [ok |-> FALSE, key |-> ERR, handler |-> NoHandler, fallback |-> TRUE]

\* a lookup that survives a missing "err" entry with a handler of its own
Lookup_default(table, uri) ==
    IF contains_key(table, uri)
    THEN [ok |-> TRUE, key |-> uri, handler |-> get(table, uri),
          fallback |-> FALSE]
    ELSE IF contains_key(table, ERR)
    THEN [ok |-> TRUE, key |-> ERR, handler |-> get(table, ERR),
          fallback |-> TRUE]
    ELSE [ok |-> TRUE, key |-> ERR, handler |-> "h1", fallback |-> TRUE]

\* the handler get_route resolves for uri: the exact entry, else the entry
\* of "err"; ok is FALSE where .unwrap() on the missing "err" entry panics
Lookup(table, uri) ==
    IF contains_key(table, uri)
    THEN [ok |-> TRUE, key |-> uri, handler |-> get(table, uri),
          fallback |-> FALSE]
    ELSE IF contains_key(table, ERR)
    THEN [ok |-> TRUE, key |-> ERR, handler |-> get(table, ERR),
          fallback |-> TRUE]
    ELSE [ok |-> FALSE, key |-> ERR, handler |-> NoHandler, fallback |-> TRUE]

\* a get_route that hands the fallback handler a request for the key it
\* was found under
get_route_rewrites_uri ==
    /\ pc = "get_route"
    /\ LET r == Request_new(request_str) IN
       IF r.fault
       THEN /\ Panic("request")
            /\ UNCHANGED <<routes, latest, last_add, backlog, nextConn, cur, locals>>
       ELSE IF is_static(r.val.uri)
       THEN /\ request' = r.val
            /\ pc' = "open"
            /\ UNCHANGED <<routes, latest, last_add, backlog, nextConn, cur, conn,
                           request_str, calls, file, hres, ret_str, wire,
                           panicked>>
       ELSE LET f == Lookup(routes, r.val.uri) IN
            IF f.ok
            THEN /\ request' = r.val
                 /\ calls' = Append(calls,
                        [key |-> f.key, handler |-> f.handler,
                         fallback |-> f.fallback,
                         request |-> [r.val EXCEPT !.uri = f.key]])
                 /\ pc' = "handler"
                 /\ UNCHANGED <<routes, latest, last_add, backlog, nextConn, cur, conn,
                                request_str, file, hres, ret_str, wire,
                                panicked>>
            ELSE /\ request' = r.val
                 /\ Panic("no err route")
                 /\ UNCHANGED <<routes, latest, last_add, backlog, nextConn, cur,
                                request_str, calls, file, hres, ret_str,
                                wire>>

\* get_route up to its first await: Request::new, the test for "static",
\* else the lookup and the call func(request)
get_route ==
    /\ pc = "get_route"
    /\ LET r == Request_new(request_str) IN
       IF r.fault
       THEN /\ Panic("request")
            /\ UNCHANGED <<routes, latest, last_add, backlog, nextConn, cur, locals>>
       ELSE IF is_static(r.val.uri)
       THEN /\ request' = r.val
            /\ pc' = "open"
            /\ UNCHANGED <<routes, latest, last_add, backlog, nextConn, cur, conn,
                           request_str, calls, file, hres, ret_str, wire,
                           panicked>>
       ELSE LET f == Lookup(routes, r.val.uri) IN
            IF f.ok
            THEN /\ request' = r.val
                 /\ calls' = Append(calls,
                        [key |-> f.key, handler |-> f.handler,
                         fallback |-> f.fallback, request |-> r.val])
                 /\ pc' = "handler"
                 /\ UNCHANGED <<routes, latest, last_add, backlog, nextConn, cur, conn,
                                request_str, file, hres, ret_str, wire,
                                panicked>>
            ELSE /\ request' = r.val
                 /\ Panic("no err route")
                 /\ UNCHANGED <<routes, latest, last_add, backlog, nextConn, cur,
                                request_str, calls, file, hres, ret_str,
                                wire>>

\* a static branch that unwraps File::open
static_file_open_unwrap(found) ==
    /\ pc = "open"
    /\ file' = found
    /\ IF found.state \in {"missing", "unreadable"}
       THEN /\ Panic("open")
            /\ UNCHANGED ret_str
       ELSE /\ ret_str' = static_response(found.contents)
            /\ pc' = "write"
            /\ conn' = [conn EXCEPT ![cur] = "Writing"]
            /\ UNCHANGED panicked
    /\ UNCHANGED <<routes, latest, last_add, backlog, nextConn, cur,
                   request_str, request, calls, hres, wire>>

\* the static branch: File::open and read_to_end, then the response
static_file(found) ==
    /\ pc = "open"
    /\ file' = found
    /\ IF found.state = "missing"
       THEN /\ ret_str' = Text(NOT_AVAILABLE)
            /\ pc' = "write"
            /\ conn' = [conn EXCEPT ![cur] = "Writing"]
            /\ UNCHANGED panicked
       ELSE IF found.state = "unreadable"
       THEN /\ Panic("read_to_end")
            /\ UNCHANGED ret_str
       ELSE /\ ret_str' = static_response(found.contents)
            /\ pc' = "write"
            /\ conn' = [conn EXCEPT ![cur] = "Writing"]
            /\ UNCHANGED panicked
    /\ UNCHANGED <<routes, latest, last_add, backlog, nextConn, cur, request_str,
                   request, calls, hres, wire>>

\* a get_route that hands the handler's error message to the client
handler_data_leak(res) == Text(res.val)

\* what get_route returns for the handler's result
handler_data(res) ==
    IF res.tag = "Ok" THEN Text(res.val) ELSE Text(<<>>)

\* func(request).await resolves, and get_route returns
handler_returns(res) ==
    /\ pc = "handler"
    /\ hres' = res
    /\ ret_str' = handler_data(res)
    /\ pc' = "write"
    /\ conn' = [conn EXCEPT ![cur] = "Writing"]
    /\ UNCHANGED <<routes, latest, last_add, backlog, nextConn, cur, request_str,
                   request, calls, file, wire, panicked>>

\* Connection::write_string / write_bytes put the data on the socket
write_data(data) ==
    [op |-> IF data.tag = "Text" THEN "write_string" ELSE "write_bytes",
     data |-> data.val]

\* a handle_connection that keeps the connection after the write and reads
\* the next request from it
write_keep_alive ==
    /\ pc = "write"
    /\ wire' = write_data(ret_str)
    /\ conn' = [conn EXCEPT ![cur] = "Reading"]
    /\ pc' = "read_to_string"
    /\ UNCHANGED <<routes, latest, last_add, backlog, nextConn, cur, request_str,
                   request, calls, file, hres, ret_str, panicked>>

\* a listen() that returns Ok(()) once a connection has been served
write_then_return ==
    /\ pc = "write"
    /\ wire' = write_data(ret_str)
    /\ conn' = [conn EXCEPT ![cur] = "Closed"]
    /\ pc' = "returned"
    /\ UNCHANGED <<routes, latest, last_add, backlog, nextConn, cur, request_str,
                   request, calls, file, hres, ret_str, panicked>>

\* the write is Ok; handle_connection returns Ok(()), which drops the
\* connection, and listen() loops
write ==
    /\ pc = "write"
    /\ wire' = write_data(ret_str)
    /\ conn' = [conn EXCEPT ![cur] = "Closed"]
    /\ pc' = "accept"
    /\ UNCHANGED <<routes, latest, last_add, backlog, nextConn, cur, request_str,
                   request, calls, file, hres, ret_str, panicked>>

\* a handle_connection that gives up on the connection when the write is
\* Err, and lets listen() go on
write_fails_contained ==
    /\ pc = "write"
    /\ conn' = [conn EXCEPT ![cur] = "Closed"]
    /\ pc' = "accept"
    /\ UNCHANGED <<routes, latest, last_add, backlog, nextConn, cur, locals,
                   panicked>>

\* the write is Err: unwrap() panics
write_fails ==
    /\ pc = "write"
    /\ Panic("write")
    /\ UNCHANGED <<routes, latest, last_add, backlog, nextConn, cur, locals>>

Next ==
    \/ \E k \in RouteKeys, h \in Handlers : add_route(k, h)
    \/ listen
    \/ ClientConnect
    \/ accept
    \/ accept_fails
    \/ Connection_new
    \/ \E raw \in RawRequests : read_to_string(raw)
    \/ get_route
    \/ \E found \in FileOutcomes : static_file(found)
    \/ \E res \in HandlerResults : handler_returns(res)
    \/ write
    \/ write_fails

Spec == Init /\ [][Next]_vars

\* where main can be once listen() is called: inside the loop, or unwinding
\* from a panic
LoopPcs ==
    {"accept", "handle_connection", "read_to_string", "get_route", "open",
     "handler", "write", "panic"}

\* main has a step to take: it has not panicked, and if it is in accept()
\* a connection is queued
Ready == pc # "panic" /\ (pc = "accept" => backlog # <<>>)

\* main moves on: add_route and a client's connect leave pc alone, every
\* other step of Next changes it
Advance == Ready /\ pc' \in LoopPcs

\* the program under a runtime that keeps polling the task of main, with
\* every await of the loop completing: main, when it has a step to take,
\* eventually takes one
SpecLive == Spec /\ WF_pc(Advance)

(***************************************************************************)
(* The static branch alone, over every file of Files: the server has read  *)
(* "GET /static/a" on its first connection and get_route is about to open   *)
(* the file.                                                               *)
(***************************************************************************)
StaticRequest == GET \o SP \o URI_STATIC_A

InitStatic ==
    /\ pc = "open"
    /\ routes = {}
    /\ latest = [k \in RouteKeys |-> NoHandler]
    /\ last_add = NoAdd
    /\ backlog = <<>>
    /\ nextConn = 2
    /\ cur = 1
    /\ conn = [c \in Conns |-> IF c = 1 THEN "Dispatching" ELSE "Unconnected"]
    /\ request_str = StaticRequest
    /\ request = Request_new(StaticRequest).val
    /\ calls = <<>>
    /\ file = NoFile
    /\ hres = NoResult
    /\ ret_str = NoData
    /\ wire = NoWrite
    /\ panicked = "no"

NextStatic ==
    \E f \in Files : static_file([state |-> "ok", contents |-> f])

SpecStatic == InitStatic /\ [][NextStatic]_vars


(***************************************************************************)
(* Request::new alone, over requests of up to MaxLines lines: the server    *)
(* has read the request on its first connection and get_route is about to  *)
(* build the Request; "/a" and "err" are registered.                       *)
(***************************************************************************)
MaxLines == 2

\* "x", a tab
WORD_X == <<120>>
TAB == <<9>>
\* "get"
LOWER_GET == <<103, 101, 116>>
\* "X-Note:", "is"
X_NOTE == <<88, 45, 78, 111, 116, 101, 58>>
WORD_IS == <<105, 115>>

\* the lines a request is made of: request lines with the method first,
\* second or missing, with two spaces or a tab between the tokens, header
\* lines with and without "User-Agent:", and the empty line
ParseLines ==
    {GET \o SP \o URI_A,
     POST \o SP \o URI_UPPER_A,
     URI_A \o SP \o PUT,
     WORD_X \o SP \o URI_A,
     LOWER_GET \o SP \o URI_A,
     WORD_X \o SP \o SP \o URI_A,
     WORD_X \o TAB \o URI_A,
     GET \o TAB \o URI_A \o SP \o WORD_X,
     UA_SEP \o BODY_HI,
     UA_SEP \o NONE,
     UA_MARK \o BODY_HI,
     WORD_X \o SP \o UA_SEP \o MSG_BOOM,
     UA_SEP \o BODY_HI \o SP \o UA_SEP \o MSG_BOOM,
     X_NOTE \o SP \o HEAD \o SP \o WORD_IS,
     <<>>}

\* the lines joined by "\r\n"
RECURSIVE JoinCRLF(_)
JoinCRLF(ls) ==
    IF Len(ls) = 0 THEN <<>>
    ELSE IF Len(ls) = 1 THEN ls[1]
    ELSE ls[1] \o CRLF \o JoinCRLF(Tail(ls))

ParseRequests ==
    {JoinCRLF(ls) : ls \in UNION {SeqsOfLen(ParseLines, n) : n \in 1..MaxLines}}

InitParse ==
    /\ pc = "get_route"
    /\ routes = insert(insert({}, ERR, "h1"), URI_A, "h2")
    /\ latest = [k \in RouteKeys |->
                    IF k = ERR THEN "h1" ELSE IF k = URI_A THEN "h2"
                    ELSE NoHandler]
    /\ last_add = NoAdd
    /\ backlog = <<>>
    /\ nextConn = 2
    /\ cur = 1
    /\ conn = [c \in Conns |-> IF c = 1 THEN "Dispatching" ELSE "Unconnected"]
    /\ request_str \in ParseRequests
    /\ request = NoRequest
    /\ calls = <<>>
    /\ file = NoFile
    /\ hres = NoResult
    /\ ret_str = NoData
    /\ wire = NoWrite
    /\ panicked = "no"

NextParse == get_route

SpecParse == InitParse /\ [][NextParse]_vars

(***************************************************************************)
(* Properties                                                              *)
(***************************************************************************)
\* connection c has been accepted by listen()
Accepted(c) == conn[c] \notin {"Unconnected", "Queued"}

\* connection c is being serviced
InService(c) == conn[c] \in {"Idle", "Reading", "Dispatching", "Writing"}

\* get_route has built the Request of connection cur
Parsed == request # NoRequest

\* sub occurs somewhere in s
HasSub(s, sub) ==
    \E i \in 1..(Len(s) - Len(sub) + 1) : SubSeq(s, i, i + Len(sub) - 1) = sub

\* the latest add_route for key k registered a handler
Registered(k) == k \in RouteKeys /\ latest[k] # NoHandler

\* the response went out and the loop went on: listen() is back at accept
\* (or past it, where accept itself failed)
LoopWentOn == pc = "accept" \/ (pc = "panic" /\ panicked = "accept")

\* once the process has panicked nothing is accepted or served any more
PanicIsFinal == pc = "panic" => (pc' = "panic" /\ conn' = conn /\ wire' = wire)

\* C1: connections are serviced one at a time and in order: a connection is
\* accepted only when every earlier one is closed, so while a handler runs
\* no later connection is accepted or served.
C1_SequentialService ==
    /\ \A d \in Conns :
          Accepted(d) => \A c \in 1..(d - 1) : conn[c] = "Closed"
    /\ Cardinality({c \in Conns : InService(c)}) <= 1
    /\ \A c \in Conns : InService(c) => c = cur

\* two clients are connected; the handler of the first is still running and
\* the second waits in the backlog
C1_Witness == pc = "handler" /\ cur = 1 /\ conn[1] = "Dispatching"
              /\ conn[2] = "Queued"

\* a parsed request with a URI that is not static and not registered, while
\* "err" is registered
FallbackCase ==
    /\ Parsed
    /\ ~HasSub(request.uri, STATIC)
    /\ ~Registered(request.uri)
    /\ Registered(ERR)

\* C2: on a miss with "err" registered, the "err" handler is invoked (once,
\* with the request), its success output is returned as Text, nothing
\* panics because of the miss, and after the write the loop goes on.
C2_FallbackRouting ==
    FallbackCase =>
        /\ calls = <<[key |-> ERR, handler |-> latest[ERR],
                      fallback |-> TRUE, request |-> request]>>
        /\ panicked \in {"no", "write", "accept"}
        /\ (hres.tag = "Ok" => ret_str = Text(hres.val))
        /\ (wire # NoWrite =>
              /\ wire = [op |-> "write_string", data |-> ret_str.val]
              /\ LoopWentOn)

\* a miss was answered with the "err" handler's "hi", and the loop is back
\* at accept with the next connection waiting
C2_Witness ==
    /\ FallbackCase
    /\ hres = [tag |-> "Ok", val |-> BODY_HI]
    /\ wire = [op |-> "write_string", data |-> BODY_HI]
    /\ pc = "accept"
    /\ backlog # <<>>

\* a parsed request with a URI that is not static and not registered, while
\* "err" is not registered either
NoFallbackCase ==
    /\ Parsed
    /\ ~HasSub(request.uri, STATIC)
    /\ ~Registered(request.uri)
    /\ ~Registered(ERR)

C3_State ==
    NoFallbackCase =>
        /\ pc = "panic"
        /\ panicked = "no err route"
        /\ calls = <<>>
        /\ hres = NoResult
        /\ ret_str = NoData
        /\ wire = NoWrite
        /\ conn[cur] = "Aborted"
        /\ \A d \in Conns : d > cur => ~Accepted(d)

\* C3: a miss without an "err" entry panics in get_route: no handler runs,
\* no value is returned, nothing is written, and no later connection is
\* accepted.
C3_MissingFallbackFatal == [](C3_State) /\ [][PanicIsFinal]_vars

\* the first connection asked for "/A" with no "err" entry: the process
\* has panicked while the second connection waits
C3_Witness ==
    /\ NoFallbackCase
    /\ request.uri = URI_UPPER_A
    /\ pc = "panic"
    /\ cur = 1
    /\ conn[2] = "Queued"

\* C4: when the invoked handler returns Err(message), get_route returns
\* Ok(Text("")): the message is not in what is written, and the loop goes
\* on.
C4_HandlerFailureSwallowed ==
    hres.tag = "Err" =>
        /\ ret_str = Text(<<>>)
        /\ panicked \in {"no", "write", "accept"}
        /\ (wire # NoWrite =>
              /\ wire = [op |-> "write_string", data |-> <<>>]
              /\ ~HasSub(wire.data, hres.val)
              /\ LoopWentOn)

\* the "err" fallback handler failed with "boom", the empty text was
\* written, and the loop is back at accept
C4_Witness ==
    /\ hres = [tag |-> "Err", val |-> MSG_BOOM]
    /\ Len(calls) = 1 /\ calls[1].fallback
    /\ wire = [op |-> "write_string", data |-> <<>>]
    /\ pc = "accept"

\* a parsed request with a URI that is not static and is a registered key
HitCase ==
    /\ Parsed
    /\ ~HasSub(request.uri, STATIC)
    /\ Registered(request.uri)

\* the dispatch of a hit: the handler of the URI's own entry, invoked once
\* with the request, and its success body returned as Text unchanged
HitDispatch ==
    /\ calls = <<[key |-> request.uri, handler |-> latest[request.uri],
                  fallback |-> FALSE, request |-> request]>>
    /\ (hres.tag = "Ok" => ret_str = Text(hres.val))

\* C5 as stated: on a hit the key's handler is invoked once, Text(b) is
\* returned unchanged, and the "err" entry's handler is not invoked.
C5_AsStated ==
    HitCase => (HitDispatch /\ \A i \in 1..Len(calls) : calls[i].key # ERR)

\* C5: on a hit the handler of the URI's own entry is invoked, once; its
\* success body b is returned as Text(b) unchanged; the fallback is not
\* taken, and the "err" entry is used only when the URI is itself "err".
C5_RouteDispatch ==
    HitCase =>
        /\ HitDispatch
        /\ (request.uri # ERR => \A i \in 1..Len(calls) : calls[i].key # ERR)

\* "/a" and "err" are registered with different handlers, "/a" was
\* requested, and its handler's "hi" is the Text returned
C5_Witness ==
    /\ HitCase
    /\ request.uri = URI_A
    /\ Registered(ERR)
    /\ latest[ERR] # latest[URI_A]
    /\ hres = [tag |-> "Ok", val |-> BODY_HI]
    /\ ret_str = Text(BODY_HI)

\* a parsed request whose URI contains "static"
StaticCase == Parsed /\ HasSub(request.uri, STATIC)

\* C6: a URI that contains "static" never reaches the route table: no
\* handler is invoked for it, whatever the file does, and it never panics
\* for lack of an "err" entry.
C6_StaticBypassesTable ==
    StaticCase =>
        /\ calls = <<>>
        /\ hres = NoResult
        /\ panicked # "no err route"

\* "/static/a" is a registered key and "err" is not registered; the
\* request for it was answered from the static branch
C6_Witness ==
    /\ StaticCase
    /\ Registered(request.uri)
    /\ ~Registered(ERR)
    /\ file.state \in {"missing", "ok"}
    /\ wire # NoWrite

\* C7: when the static file cannot be opened get_route returns
\* Ok(Text("ERROR - CONTENT NOT AVAILABLE")): nothing panics because of it,
\* that text is what is written, and the loop goes on.
C7_OpenFailureAbsorbed ==
    file.state = "missing" =>
        /\ StaticCase
        /\ ret_str = Text(NOT_AVAILABLE)
        /\ panicked \in {"no", "write", "accept"}
        /\ (wire # NoWrite =>
              /\ wire = [op |-> "write_string", data |-> NOT_AVAILABLE]
              /\ LoopWentOn)

\* the file was missing, the placeholder was written, and the loop is back
\* at accept with the next connection waiting
C7_Witness ==
    /\ file.state = "missing"
    /\ wire = [op |-> "write_string", data |-> NOT_AVAILABLE]
    /\ pc = "accept"
    /\ backlog # <<>>

\* C8: the table holds, for every key, exactly one entry when the key was
\* ever registered and none otherwise, and that entry is the handler of the
\* latest add_route for the key; every dispatch invokes that handler.
C8_Upsert ==
    /\ \A e \in routes : e.key \in RouteKeys
    /\ \A k \in RouteKeys :
          {e \in routes : e.key = k}
              = IF latest[k] = NoHandler THEN {}
                ELSE {[key |-> k, handler |-> latest[k]]}
    /\ \A i \in 1..Len(calls) : calls[i].handler = latest[calls[i].key]

\* "/a" was registered with h1 and then again with h2, with "err"
\* registered too
C8_Witness ==
    /\ pc = "setup"
    /\ last_add = [key |-> URI_A, old |-> "h1"]
    /\ latest[URI_A] = "h2"
    /\ Registered(ERR)

\* the first line of a raw request: what precedes its first CRLF
FirstLine(raw) ==
    LET ends == {i \in 1..(Len(raw) - 1) : raw[i] = 13 /\ raw[i + 1] = 10}
    IN  IF ends = {} THEN raw ELSE SubSeq(raw, 1, Min(ends) - 1)

\* the first line has no space, hence fewer than two space-separated tokens
FewTokens(raw) == \A i \in 1..Len(FirstLine(raw)) : FirstLine(raw)[i] # 32

\* the request of connection cur was read and get_route has acted on it
Dispatched ==
    /\ cur # 0
    /\ conn[cur] \notin {"Idle", "Reading"}
    /\ pc # "get_route"

C9_State ==
    (Dispatched /\ FewTokens(request_str)) =>
        /\ pc = "panic"
        /\ panicked = "request"
        /\ request = NoRequest
        /\ calls = <<>>
        /\ hres = NoResult
        /\ ret_str = NoData
        /\ wire = NoWrite
        /\ conn[cur] = "Aborted"
        /\ \A d \in Conns : d > cur => ~Accepted(d)

\* C9: a request whose first line has fewer than two space-separated tokens
\* makes Request::new panic: no handler is invoked, nothing is written, and
\* the process is gone, so no later connection is accepted.
C9_ParserFaultFatal == [][PanicIsFinal]_vars /\ [](C9_State)

\* the first connection sent "GET\r\nX-A: b": one token on the first line,
\* spaces only on the second; the process has panicked while the second
\* connection waits
C9_Witness ==
    /\ request_str = GET \o CRLF \o HEADER_LINE
    /\ pc = "panic"
    /\ panicked = "request"
    /\ cur = 1
    /\ conn[2] = "Queued"

\* the value of one hexadecimal digit, -1 for any other byte
HexDigitVal(c) ==
    IF c >= 48 /\ c <= 57 THEN c - 48
    ELSE IF c >= 97 /\ c <= 102 THEN c - 87
    ELSE -1

\* the value of a sequence of hexadecimal digits, -1 when it is not one
RECURSIVE HexVal(_)
HexVal(ds) ==
    IF Len(ds) = 0 THEN -1
    ELSE LET last == HexDigitVal(ds[Len(ds)]) IN
         IF last < 0 THEN -1
         ELSE IF Len(ds) = 1 THEN last
         ELSE LET front == HexVal(SubSeq(ds, 1, Len(ds) - 1)) IN
              IF front < 0 THEN -1 ELSE 16 * front + last

BadChunks == [ok |-> FALSE, data |-> <<>>, sizes |-> <<>>]

\* a chunked body decoded from index i on: a size line, that many bytes and
\* a CRLF per chunk, up to the chunk of size 0 and the final CRLF, with
\* nothing after it; data is the payload and sizes the data chunks' sizes
RECURSIVE DeChunk(_, _)
DeChunk(b, i) ==
    LET ends == {j \in i..(Len(b) - 1) : b[j] = 13 /\ b[j + 1] = 10}
    IN  IF ends = {} THEN BadChunks
        ELSE LET j == Min(ends)
                 n == HexVal(SubSeq(b, i, j - 1))
             IN  IF n < 0 THEN BadChunks
                 ELSE IF n = 0
                 THEN IF Len(b) = j + 3 /\ b[j + 2] = 13 /\ b[j + 3] = 10
                      THEN [ok |-> TRUE, data |-> <<>>, sizes |-> <<>>]
                      ELSE BadChunks
                 ELSE IF j + n + 3 > Len(b) THEN BadChunks
                 ELSE IF b[j + n + 2] # 13 \/ b[j + n + 3] # 10 THEN BadChunks
                 ELSE LET rest == DeChunk(b, j + n + 4) IN
                      IF ~rest.ok THEN BadChunks
                      ELSE [ok |-> TRUE,
                            data |-> SubSeq(b, j + 2, j + n + 1) \o rest.data,
                            sizes |-> <<n>> \o rest.sizes]

IsAscii(b) == \A i \in 1..Len(b) : b[i] < 128

\* C10: the response for a readable static file is the header template of
\* its payload kind followed by the file in chunks: de-chunking gives back
\* the file's bytes, every data chunk but the last carries 8 bytes and the
\* last 1 to 8, the zero-length chunk ends it; an ASCII file gives Text.
C10_StaticRoundTrip ==
    (file.state = "ok" /\ ret_str # NoData) =>
        LET header == IF ret_str.tag = "Text" THEN CSS_TEMPLATE
                      ELSE JPEG_TEMPLATE
            v == ret_str.val
            d == DeChunk(SubSeq(v, Len(header) + 1, Len(v)), 1)
        IN  /\ ret_str.tag \in {"Text", "Bytes"}
            /\ Len(v) >= Len(header)
            /\ SubSeq(v, 1, Len(header)) = header
            /\ d.ok
            /\ d.data = file.contents
            /\ \A i \in 1..Len(d.sizes) :
                  IF i < Len(d.sizes) THEN d.sizes[i] = 8
                  ELSE d.sizes[i] \in 1..8
            /\ (IsAscii(file.contents) => ret_str.tag = "Text")

\* an ASCII file of 17 bytes or more, that is of three data chunks, which
\* holds a CRLF and a "0" itself, was returned as Text
C10_Witness ==
    /\ file.state = "ok"
    /\ Len(file.contents) >= 17
    /\ IsAscii(file.contents)
    /\ HasSub(file.contents, <<13, 10, 48>>)
    /\ ret_str.tag = "Text"

\* the k-th slice of ChunkSize bytes of a file
FileSlice(f, k) ==
    SubSeq(f, (k - 1) * ChunkSize + 1, Min({k * ChunkSize, Len(f)}))

SliceCount(f) == (Len(f) + ChunkSize - 1) \div ChunkSize

\* a multi-byte character of the file lies across the end of a slice: the
\* byte after the end of a slice is a continuation byte
Straddles(f) ==
    \E k \in 1..SliceCount(f) :
        /\ k * ChunkSize < Len(f)
        /\ f[k * ChunkSize + 1] \in 128..191

\* C11 as stated: the payload of a readable static file is Text exactly
\* when the bytes of the file are valid UTF-8 and Bytes exactly when they
\* are not
C11_AsStated ==
    (StaticCase /\ file.state = "ok" /\ ret_str # NoData)
        => /\ ret_str.tag \in {"Text", "Bytes"}
           /\ (ret_str.tag = "Text" <=> Utf8(file.contents))

\* C11: the payload of a readable static file is Text exactly when every
\* slice of 8 bytes of the file is valid UTF-8 on its own, and Bytes
\* otherwise: a file that is not valid UTF-8 is always Bytes, and a valid
\* one is Text unless a multi-byte character lies across the end of a slice
C11_TagByChunks ==
    (StaticCase /\ file.state = "ok" /\ ret_str # NoData)
        => /\ ret_str.tag \in {"Text", "Bytes"}
           /\ (ret_str.tag = "Text"
                <=> \A k \in 1..SliceCount(file.contents) :
                        Utf8(FileSlice(file.contents, k)))
           /\ (~Utf8(file.contents) => ret_str.tag = "Bytes")
           /\ ((Utf8(file.contents) /\ ~Straddles(file.contents))
                => ret_str.tag = "Text")
           /\ ((Utf8(file.contents) /\ Straddles(file.contents))
                => ret_str.tag = "Bytes")

\* a file that is valid UTF-8, whose three-byte character lies across the
\* end of its first slice, was returned as Bytes
C11_Witness ==
    /\ StaticCase
    /\ file.state = "ok"
    /\ Utf8(file.contents)
    /\ HasSub(file.contents, <<226, 130, 172>>)
    /\ Straddles(file.contents)
    /\ ret_str.tag = "Bytes"

\* the next state of a connection
LifecycleSteps ==
    {<<"Unconnected", "Queued">>, <<"Queued", "Idle">>,
     <<"Idle", "Reading">>, <<"Reading", "Dispatching">>,
     <<"Dispatching", "Writing">>, <<"Writing", "Closed">>}

\* handle_connection has just been entered: its locals are not yet set
Entered ==
    /\ cur' # cur
    /\ conn[cur'] = "Queued"
    /\ conn'[cur'] = "Idle"
    /\ request_str' = <<>>
    /\ calls' = <<>>
    /\ ret_str' = NoData
    /\ wire' = NoWrite

\* what one step does to the connections and to the data of the one in
\* service
LifecycleStep ==
    /\ \A c \in Conns :
          conn'[c] # conn[c] =>
             \/ <<conn[c], conn'[c]>> \in LifecycleSteps
             \/ (c = cur /\ pc' = "panic" /\ conn'[c] = "Aborted")
    /\ \A c \in Conns :
          (conn[c] = "Queued" /\ conn'[c] = "Idle") =>
             \A d \in Conns \ {c} :
                conn[d] \in {"Unconnected", "Queued", "Closed"}
    /\ request_str' # request_str =>
          \/ Entered
          \/ (conn[cur] = "Reading" /\ conn'[cur] = "Dispatching")
    /\ calls' # calls =>
          \/ Entered
          \/ (conn[cur] = "Dispatching" /\ conn'[cur] = "Dispatching"
                /\ calls = <<>> /\ Len(calls') = 1)
    /\ ret_str' # ret_str =>
          \/ Entered
          \/ (conn[cur] = "Dispatching" /\ conn'[cur] = "Writing"
                /\ ret_str = NoData)
    /\ wire' # wire =>
          \/ Entered
          \/ (conn[cur] = "Writing" /\ conn'[cur] = "Closed"
                /\ wire = NoWrite /\ ret_str' = ret_str
                /\ wire'.op = (IF ret_str.tag = "Text" THEN "write_string"
                               ELSE "write_bytes")
                /\ wire'.data = ret_str.val)

\* what each state of the connection in service means for its data
LifecycleState ==
    cur # 0 =>
        /\ conn[cur] \in {"Idle", "Reading"} =>
              (request_str = <<>> /\ request = NoRequest /\ calls = <<>>
                 /\ ret_str = NoData /\ wire = NoWrite)
        /\ conn[cur] = "Dispatching" => (ret_str = NoData /\ wire = NoWrite)
        /\ conn[cur] = "Writing" =>
              (ret_str.tag \in {"Text", "Bytes"} /\ wire = NoWrite)
        /\ conn[cur] = "Closed" =>
              /\ ret_str.tag \in {"Text", "Bytes"}
              /\ wire.op \in {"write_string", "write_bytes"}
              /\ wire.op = "write_string" <=> ret_str.tag = "Text"
              /\ wire.data = ret_str.val
        /\ Len(calls) <= 1

\* C12: a connection moves only from each state to the next one of Idle,
\* Reading, Dispatching, Writing, Closed (a panic ends the process in the
\* state it is in); the request is read in the step from Reading to
\* Dispatching, at most one handler is called and the response is set in
\* the step that ends Dispatching, the one write, write_string for Text or
\* write_bytes for Bytes, is the step from Writing to Closed, and a
\* connection is accepted only when every other one is queued or Closed.
C12_LinearLifecycle == [](LifecycleState) /\ [][LifecycleStep]_vars

\* the second connection is Closed after its write_bytes, the first one
\* having been Closed before it
C12_Witness ==
    /\ cur = 2
    /\ conn[1] = "Closed"
    /\ conn[2] = "Closed"
    /\ wire.op = "write_bytes"
    /\ pc = "accept"

\* the indices in raw where a "\r\n" begins, and where a line begins
Breaks(raw) == {i \in 1..(Len(raw) - 1) : raw[i] = 13 /\ raw[i + 1] = 10}

LineStarts(raw) == {1} \cup {i + 2 : i \in Breaks(raw)}

\* the line of raw that begins at index s
LineAt(raw, s) ==
    LET later == {i \in Breaks(raw) : i >= s}
    IN  IF later = {} THEN SubSeq(raw, s, Len(raw))
        ELSE SubSeq(raw, s, Min(later) - 1)

\* everything after the first "User-Agent: " of a line that contains it
AfterMarker(line) ==
    LET at == {i \in 1..Len(line) : StartsAt(line, UA_SEP, i)}
    IN  SubSeq(line, Min(at) + Len(UA_SEP), Len(line))

\* the user agent of a request: from its first line that contains
\* "User-Agent: ", else "none"
FirstAgent(raw) ==
    LET marked == {s \in LineStarts(raw) : HasSub(LineAt(raw, s), UA_SEP)}
    IN  IF marked = {} THEN NONE ELSE AfterMarker(LineAt(raw, Min(marked)))

\* C13 as stated: for a request whose first line has a second token, the
\* extraction of the user agent does not fault, and user_agent is what
\* follows "User-Agent: " on the first line that contains it, "none" when
\* no line contains it
C13_AsStated ==
    (Dispatched /\ ~FewTokens(request_str))
        => /\ panicked # "request"
           /\ Parsed
           /\ request.user_agent = FirstAgent(request_str)

\* what lies between the first space of a line and its next space, or the
\* end of the line
SecondPiece(line) ==
    LET spaces == {i \in 1..Len(line) : line[i] = 32}
        a == Min(spaces)
        later == {i \in spaces : i > a}
        b == IF later = {} THEN Len(line) + 1 ELSE Min(later)
    IN  SubSeq(line, a + 1, b - 1)

\* space and tab
Whitespace == {32, 9}

\* the indices of a line where a whitespace-separated token begins
TokenStarts(line) ==
    {i \in 1..Len(line) :
        /\ line[i] \notin Whitespace
        /\ (i = 1 \/ line[i - 1] \in Whitespace)}

\* the whitespace-separated token of a line that begins at index s
TokenAt(line, s) ==
    LET stops == {i \in s..Len(line) : line[i] \in Whitespace}
    IN  IF stops = {} THEN SubSeq(line, s, Len(line))
        ELSE SubSeq(line, s, Min(stops) - 1)

\* the second whitespace-separated token of a line that has two
SecondToken(line) ==
    LET first == Min(TokenStarts(line))
    IN  TokenAt(line, Min(TokenStarts(line) \ {first}))

\* C14 as stated: when the first line has at least two tokens separated by
\* whitespace (one or several spaces, or a tab), uri is the second of them
C14_AsStated ==
    (Parsed /\ Cardinality(TokenStarts(FirstLine(request_str))) >= 2)
        => request.uri = SecondToken(FirstLine(request_str))

\* C14: uri is the second piece of the first line split at every single
\* space: what lies between the first space of the first line and its next
\* space or its end, unmodified. It is empty when two spaces follow the
\* first token, a tab does not separate, and it comes from the first line
\* whichever line the method keyword is on.
C14_UriSecondPiece ==
    Parsed =>
        /\ ~FewTokens(request_str)
        /\ request.uri = SecondPiece(FirstLine(request_str))

\* a request whose first line has two spaces after its first token, and
\* whose method keyword is on a later line, was parsed: its uri is empty
C14_Witness ==
    /\ Parsed
    /\ HasSub(FirstLine(request_str), SP \o SP)
    /\ request.method = "Head"
    /\ request.uri = <<>>

\* the eight keywords and the methods they stand for
Keywords ==
    {<<GET, "Get">>, <<POST, "Post">>, <<HEAD, "Head">>, <<PUT, "Put">>,
     <<DELETE, "Delete">>, <<CONNECT, "Connect">>, <<OPTIONS, "Options">>,
     <<TRACE, "Trace">>}

\* the indices of raw that hold a space or a byte of a "\r\n"
Delims(raw) ==
    LET br == Breaks(raw)
    IN  {i \in 1..Len(raw) : raw[i] = 32 \/ i \in br \/ (i - 1) \in br}

\* the word of raw that begins at index s and ends before the next of the
\* indices ds
WordAt(raw, ds, s) ==
    LET stops == {i \in ds : i > s}
    IN  IF stops = {} THEN SubSeq(raw, s, Len(raw))
        ELSE SubSeq(raw, s, Min(stops) - 1)

\* the indices of raw where a word begins, and where a keyword begins
WordStarts(raw, ds) ==
    {s \in (1..Len(raw)) \ ds : s = 1 \/ (s - 1) \in ds}

KeywordStarts(raw) ==
    LET ds == Delims(raw)
    IN  {s \in WordStarts(raw, ds) :
            \E k \in Keywords : k[1] = WordAt(raw, ds, s)}

\* the method of the first keyword of raw, "None" when it has none
FirstKeyword(raw) ==
    LET ks == KeywordStarts(raw)
    IN  IF ks = {} THEN "None"
        ELSE LET w == WordAt(raw, Delims(raw), Min(ks))
             IN  (CHOOSE k \in Keywords : k[1] = w)[2]

\* C15: method is the keyword of the first token of the raw text, lines in
\* order and the space-separated tokens of a line in order, that equals one
\* of GET, POST, HEAD, PUT, DELETE, CONNECT, OPTIONS, TRACE: a keyword on
\* a later line is taken when no earlier token matches and never instead
\* of an earlier one; method is absent exactly when no token matches.
C15_FirstMatchWins ==
    Parsed =>
        /\ request.method = FirstKeyword(request_str)
        /\ request.method = "None" <=>
              \A s \in WordStarts(request_str, Delims(request_str)) :
                 \A k \in Keywords :
                    k[1] # WordAt(request_str, Delims(request_str), s)

\* a request whose first line has no keyword and whose second line has
\* HEAD as its second token was parsed with method Head
C15_Witness ==
    /\ Parsed
    /\ KeywordStarts(request_str) # {}
    /\ KeywordStarts(FirstLine(request_str)) = {}
    /\ ~HasSub(FirstLine(request_str), SP \o SP)
    /\ request.method = "Head"
    /\ request.uri = URI_A

\* listen() has been called
Listening == pc # "setup"

\* C16: once listen() has been called no step adds, removes or replaces an
\* entry of the route table: accept, read, get_route on a hit, on a miss
\* with the fallback and on the static path, a handler's failure and the
\* write all leave the table as it was when listen() was called.
C16_RoutesFrozen ==
    [][Listening => (Listening' /\ routes' = routes /\ latest' = latest)]_vars

\* with a route and the fallback registered, one connection was served and
\* the next one was answered from a file
C16_Witness ==
    /\ Listening
    /\ contains_key(routes, URI_A)
    /\ contains_key(routes, ERR)
    /\ conn[1] = "Closed"
    /\ cur = 2
    /\ StaticCase
    /\ file.state = "ok"
    /\ pc = "accept"

\* C17: listen() never returns: once called, main is inside the loop or
\* has panicked; the step that closes a connection leads back to accept();
\* apart from a panic the loop rests nowhere but in accept() with nothing
\* queued; and when every wait completes, each queued connection is
\* eventually served and Closed unless a panic ends the process.
C17_NoCleanShutdown ==
    /\ [](Listening => pc \in LoopPcs)
    /\ [][\A c \in Conns :
            (conn[c] # "Closed" /\ conn'[c] = "Closed") => pc' = "accept"]_vars
    /\ \A p \in LoopPcs \ {"panic"} :
          (pc = p /\ Ready) ~> (pc # p)
    /\ \A c \in Conns :
          (conn[c] = "Queued") ~> (conn[c] = "Closed" \/ pc = "panic")

\* both connections were queued while the first was in service, and both
\* have been served
C17_Witness ==
    /\ pc = "accept"
    /\ backlog = <<>>
    /\ \A c \in Conns : conn[c] = "Closed"
    /\ panicked = "no"

\* the write of the response ends without anything written
WriteFailed == pc = "write" /\ pc' # "write" /\ wire' = NoWrite

\* C18: a write of the response that fails panics in handle_connection: the
\* connection is not Closed by a write, the process is in its panic state,
\* and from there no step accepts or serves a connection, those already
\* queued included.
C18_WriteFailureFatal ==
    /\ [][WriteFailed => (pc' = "panic" /\ panicked' = "write"
                            /\ conn'[cur] = "Aborted")]_vars
    /\ [](panicked = "write" =>
            /\ pc = "panic"
            /\ cur # 0
            /\ conn[cur] = "Aborted"
            /\ wire = NoWrite
            /\ \A d \in Conns \ {cur} :
                  conn[d] \in {"Unconnected", "Queued", "Closed"})
    /\ [][panicked = "write" =>
            (pc' = "panic" /\ conn' = conn /\ backlog' = backlog
               /\ wire' = wire)]_vars

\* the write to the first connection failed while the second one was
\* queued
C18_Witness ==
    /\ panicked = "write"
    /\ cur = 1
    /\ ret_str.tag = "Text"
    /\ conn[2] = "Queued"
    /\ backlog = <<2>>

\* the lines of raw, in order
Lines(raw) ==
    LET starts == LineStarts(raw)
        Nth(k) == CHOOSE s \in starts :
                      Cardinality({t \in starts : t < s}) = k - 1
    IN  [k \in 1..Cardinality(starts) |-> LineAt(raw, Nth(k))]

\* C19: the handler of "err" called on a miss is given the Request built
\* from the raw text that was read: its uri is the requested one, which is
\* not a registered key (so not "err"), and method, user_agent and
\* raw_request are those of that text, the same Request a handler found
\* by an exact match is given.
C19_FallbackSeesRequest ==
    \A i \in 1..Len(calls) :
        /\ calls[i].request = Request_new(request_str).val
        /\ calls[i].request.raw_request = Lines(request_str)
        /\ calls[i].request.method = FirstKeyword(request_str)
        /\ calls[i].request.uri = SecondPiece(FirstLine(request_str))
        /\ calls[i].fallback =>
              /\ calls[i].key = ERR
              /\ calls[i].handler = latest[ERR]
              /\ calls[i].request.uri # ERR
              /\ ~Registered(calls[i].request.uri)
        /\ ~calls[i].fallback => calls[i].request.uri = calls[i].key

\* "POST /A" with a User-Agent line, a miss, went to the handler of "err"
\* with uri "/A", method Post and that user agent
C19_Witness ==
    /\ Len(calls) = 1
    /\ calls[1].fallback
    /\ calls[1].key = ERR
    /\ calls[1].request.uri = URI_UPPER_A
    /\ calls[1].request.method = "Post"
    /\ calls[1].request.user_agent = BODY_HI
    /\ Len(calls[1].request.raw_request) = 2

=============================================================================
